---- MODULE Spec2Model ----
(***************************************************************************)
(* Model of installer-script.py, the ClipABit plugin installer for DaVinci  *)
(* Resolve.  main() runs seven gates in sequence; every external process   *)
(* (python3, which, pip, ensurepip) and every filesystem call is an input  *)
(* of the action that issues it.                                           *)
(*                                                                         *)
(* Environment assumptions of the model: python3 stays on PATH once        *)
(* check_python_installation has found it, and on Windows APPDATA and      *)
(* PROGRAMDATA are defined (the operating system sets both).               *)
(***************************************************************************)
EXTENDS Integers, Sequences, FiniteSets, TLC

VARIABLES
    system,         \* platform.system()
    tomllib,        \* TRUE iff a TOML parser was imported (module level)
    source,         \* the tree at <script_dir>/frontend/plugin
    fs,             \* the user-scope and system-scope plugin directories
    fs0,            \* fs at the start of the run (history)
    pc,             \* the statement of main() about to run
    started,        \* the stages called so far, in order
    returned,       \* the results returned so far, in order
    procs,          \* the external commands issued so far, in order
    fsOps,          \* the mutating filesystem calls issued so far, in order
    python_version, \* sys.version_info[:2] of python3, once it was asked
    data,           \* what reading pyproject.toml gave, once it was read
    dependencies,   \* install_dependencies' local `dependencies`
    plugin_dir,     \* the directories resolved so far (deploy, then verify)
    importable,     \* the modules python3 could import when verify asked
    printed,        \* main()'s closing messages
    exitCode,       \* the process exit code, -1 while running
    resolved        \* results of the calls made by the resolver harness

vars == <<system, tomllib, source, fs, fs0, pc, started, returned, procs,
          fsOps, python_version, data, dependencies, plugin_dir,
          importable, printed, exitCode, resolved>>

-----------------------------------------------------------------------------
(* Bounds *)

MaxDeps == 2        \* longest project.dependencies list of a manifest
MaxCalls == 2       \* calls made by the resolver harness
MaxMissing == 1     \* modules python3 cannot import when verify asks

-----------------------------------------------------------------------------
(* Values *)

Range(s) == {s[k] : k \in DOMAIN s}

BSeq(S, n) == UNION {[1..k -> S] : k \in 0..n}

Systems == {"Darwin", "Windows", "Linux"}

Scopes == {"user", "system"}

\* lines 185-189, 194-198, 212-216
FallbackDependencies == <<"pyqt6>=6.10.0", "requests>=2.31.0", "watchdog>=3.0.0">>

\* requirement strings a manifest may declare
Requirements == Range(FallbackDependencies) \cup {"numpy>=1.26"}

\* line 341: import PyQt6, requests, watchdog
ImportStatement == {"PyQt6", "requests", "watchdog"}

Modules == ImportStatement \cup {"numpy"}

\* what python3 may be able to import: all modules but at most MaxMissing
ImportableSets == {Modules \ M : M \in {X \in SUBSET Modules : Cardinality(X) <= MaxMissing}}

PyVersions == {<<2, 7>>, <<3, 7>>, <<3, 8>>, <<3, 10>>}

NoVersion == <<0, 0>>

File(n, c, x) == [name |-> n, content |-> c, exec |-> x]

NoTree == [present |-> FALSE, files |-> {}]

Tree(files) == [present |-> TRUE, files |-> files]

Names(tree) == {f.name : f \in tree.files}

\* the payload shipped next to the installer
SourceFiles == {File("clipabit.py", "new", FALSE), File("pyproject.toml", "new", FALSE)}

SourceTrees == {NoTree} \cup {Tree(S) : S \in SUBSET SourceFiles}

\* what an earlier installation may have left behind
PriorFiles == {File("clipabit.py", "old", TRUE), File("stale.py", "old", FALSE)}

PriorTrees == {NoTree, Tree(PriorFiles)}

NoDir == [exists |-> FALSE, ClipABit |-> NoTree]

Dir(tree) == [exists |-> TRUE, ClipABit |-> tree]

DirStates == {NoDir} \cup {Dir(t) : t \in PriorTrees}

\* outcome of tomllib.load and of the two .get calls (lines 201-203)
Unread == [parsed |-> FALSE, declared |-> FALSE, dependencies |-> <<>>]

ParseError == [parsed |-> FALSE, declared |-> TRUE, dependencies |-> <<>>]

Manifest(deps) == [parsed |-> TRUE, declared |-> TRUE, dependencies |-> deps]

Undeclared == [parsed |-> TRUE, declared |-> FALSE, dependencies |-> <<>>]

Manifests == {ParseError, Undeclared} \cup {Manifest(d) : d \in BSeq(Requirements, MaxDeps)}

Proc(cmd, arg, rc) == [cmd |-> cmd, arg |-> arg, rc |-> rc]

Outcomes == {"ok", "fail", "notfound"}

-----------------------------------------------------------------------------
(* The functions of the script, as operators of their inputs *)

\* mutant: the final else branch also accepts the platform
check_platform_any(sys) == TRUE

\* check_platform (lines 61-73)
check_platform(sys) ==
    IF sys = "Darwin" THEN TRUE
    ELSE IF sys = "Windows" THEN TRUE
    ELSE FALSE

\* resolve_paths of check_davinci_resolve (lines 82-93)
resolve_paths(sys) ==
    IF sys = "Darwin"
    THEN <<"/Applications/DaVinci Resolve/DaVinci Resolve.app",
           "/Applications/DaVinci Resolve Studio/DaVinci Resolve Studio.app">>
    ELSE IF sys = "Windows"
    THEN <<"C:\\Program Files\\Blackmagic Design\\DaVinci Resolve\\Resolve.exe",
           "C:\\Program Files\\Blackmagic Design\\DaVinci Resolve Studio\\Resolve.exe">>
    ELSE <<>>

\* check_davinci_resolve (lines 76-103); existing: the paths os.path.exists finds
check_davinci_resolve(sys, existing) ==
    \E k \in DOMAIN resolve_paths(sys) : resolve_paths(sys)[k] \in existing

\* mutant: the versions are compared as the strings "3.10" and "3.8"
version_info_ge_as_text(v, w) ==
    LET lead(n) == IF n >= 10 THEN n \div 10 ELSE n
    IN  \/ v[1] > w[1]
        \/ v[1] = w[1] /\ lead(v[2]) > lead(w[2])
        \/ v[1] = w[1] /\ lead(v[2]) = lead(w[2]) /\ (w[2] < 10 \/ v[2] >= w[2])

\* sys.version_info >= (3, 8) (line 133): tuples compare lexicographically
version_info_ge(v, w) ==
    \/ v[1] > w[1]
    \/ v[1] = w[1] /\ v[2] >= w[2]

\* check_python_installation (lines 106-146).  ver, which: how the first two
\* commands end; v: the version of the python3 that answers.
check_python_installation(ver, which, v) ==
    LET p1 == <<Proc("python3 --version", "", ver)>>
        p2 == Append(p1, Proc("which python3", "", which))
        rc == IF version_info_ge(v, <<3, 8>>) THEN "ok" ELSE "fail"
        p3 == Append(p2, Proc("python3 -c sys.version_info >= (3, 8)", "", rc))
    IN  IF ver # "ok" THEN [value |-> FALSE, procs |-> p1, version |-> NoVersion]
        ELSE IF which # "ok" THEN [value |-> FALSE, procs |-> p2, version |-> NoVersion]
        ELSE [value |-> (rc = "ok"), procs |-> p3, version |-> v]

\* mutant: after a successful bootstrap the version check is run again
check_pip_installation_rechecks(pip, ensurepip) ==
    LET p1 == <<Proc("python3 -m pip --version", "", pip)>>
        p2 == Append(p1, Proc("python3 -m ensurepip --default-pip", "", ensurepip))
        p3 == Append(p2, Proc("python3 -m pip --version", "", "ok"))
    IN  IF pip = "ok" THEN [value |-> TRUE, procs |-> p1]
        ELSE IF ensurepip = "ok" THEN [value |-> TRUE, procs |-> p3]
        ELSE [value |-> FALSE, procs |-> p2]

\* check_pip_installation (lines 149-174)
check_pip_installation(pip, ensurepip) ==
    LET p1 == <<Proc("python3 -m pip --version", "", pip)>>
        p2 == Append(p1, Proc("python3 -m ensurepip --default-pip", "", ensurepip))
    IN  IF pip = "ok" THEN [value |-> TRUE, procs |-> p1]
        ELSE IF ensurepip = "ok" THEN [value |-> TRUE, procs |-> p2]
        ELSE [value |-> FALSE, procs |-> p2]

\* mutant: an empty declaration falls back like an unreadable manifest
get_dependencies_empty_falls_back(src, toml, doc) ==
    IF ~(src.present /\ "pyproject.toml" \in Names(src)) THEN FallbackDependencies
    ELSE IF ~toml THEN FallbackDependencies
    ELSE IF ~doc.parsed THEN FallbackDependencies
    ELSE IF doc.declared /\ doc.dependencies # <<>> THEN doc.dependencies
    ELSE FallbackDependencies

\* get_dependencies_from_pyproject (lines 177-216).  src: the tree that holds
\* pyproject.toml; toml: the parser was imported; doc: what reading gives.
get_dependencies_from_pyproject(src, toml, doc) ==
    IF ~(src.present /\ "pyproject.toml" \in Names(src)) THEN FallbackDependencies
    ELSE IF ~toml THEN FallbackDependencies
    ELSE IF ~doc.parsed THEN FallbackDependencies
    ELSE LET deps == IF doc.declared THEN doc.dependencies ELSE <<>>
         IN  IF deps # <<>> THEN deps ELSE <<>>

\* mutant: a failed install is reported but the loop goes on
RECURSIVE install_loop_keeps_going(_, _, _)
install_loop_keeps_going(deps, rcs, k) ==
    IF k > Len(deps) THEN [value |-> TRUE, procs |-> <<>>]
    ELSE LET run == Proc("python3 -m pip install --upgrade", deps[k], rcs[k])
             rest == install_loop_keeps_going(deps, rcs, k + 1)
         IN  [value |-> rest.value /\ rcs[k] = "ok", procs |-> <<run>> \o rest.procs]

\* mutant: a failed install is tried a second time before giving up
RECURSIVE install_loop_retries(_, _, _)
install_loop_retries(deps, rcs, k) ==
    IF k > Len(deps) THEN [value |-> TRUE, procs |-> <<>>]
    ELSE LET run == Proc("python3 -m pip install --upgrade", deps[k], rcs[k])
         IN  IF rcs[k] # "ok" THEN [value |-> FALSE, procs |-> <<run, run>>]
             ELSE LET rest == install_loop_retries(deps, rcs, k + 1)
                  IN  [value |-> rest.value, procs |-> <<run>> \o rest.procs]

\* the for loop of install_dependencies from position k on (lines 228-243);
\* rcs[k]: how pip install of deps[k] ends
RECURSIVE install_loop(_, _, _)
install_loop(deps, rcs, k) ==
    IF k > Len(deps) THEN [value |-> TRUE, procs |-> <<>>]
    ELSE LET run == Proc("python3 -m pip install --upgrade", deps[k], rcs[k])
         IN  IF rcs[k] # "ok" THEN [value |-> FALSE, procs |-> <<run>>]
             ELSE LET rest == install_loop(deps, rcs, k + 1)
                  IN  [value |-> rest.value, procs |-> <<run>> \o rest.procs]

\* mutant: no early return; pip is run once more, with nothing to install
install_dependencies_unguarded(deps, rcs) ==
    IF deps = <<>>
    THEN [value |-> FALSE,
          procs |-> <<Proc("python3 -m pip install --upgrade", "", "fail")>>]
    ELSE install_loop(deps, rcs, 1)

\* install_dependencies after the call of line 222 (lines 224-243)
install_dependencies(deps, rcs) ==
    IF deps = <<>> THEN [value |-> TRUE, procs |-> <<>>]
    ELSE install_loop(deps, rcs, 1)

\* mutant: the two return statements are swapped
get_resolve_plugin_directory_swapped(sys, fsys) ==
    IF sys \in {"Darwin", "Windows"}
    THEN IF fsys["user"].exists \/ ~fsys["system"].exists
         THEN [system |-> sys, scope |-> "system"]
         ELSE [system |-> sys, scope |-> "user"]
    ELSE [system |-> sys, scope |-> "home"]

\* mutant: the user directory is returned only when it exists
get_resolve_plugin_directory_user_only_if_exists(sys, fsys) ==
    IF sys \in {"Darwin", "Windows"}
    THEN IF fsys["user"].exists
         THEN [system |-> sys, scope |-> "user"]
         ELSE [system |-> sys, scope |-> "system"]
    ELSE [system |-> sys, scope |-> "home"]

\* get_resolve_plugin_directory (lines 246-267)
get_resolve_plugin_directory(sys, fsys) ==
    IF sys \in {"Darwin", "Windows"}
    THEN IF fsys["user"].exists \/ ~fsys["system"].exists
         THEN [system |-> sys, scope |-> "user"]
         ELSE [system |-> sys, scope |-> "system"]
    ELSE [system |-> sys, scope |-> "home"]

\* the calls issued, the last of which raised (the except clauses of lines
\* 293, 303 and 319 are entered)
raised(ops) == Append(ops, "raised")

\* os.chmod(main_plugin, 0o755) (line 315)
chmod(files) ==
    {IF f.name = "clipabit.py" THEN [f EXCEPT !.exec = TRUE] ELSE f : f \in files}

\* mutant: no rmtree; copytree(dirs_exist_ok=True) copies over what is there
copy_plugin_files_merge(sys, fsys, src, fail, left) ==
    LET dir == get_resolve_plugin_directory(sys, fsys)
        d == dir.scope
        made == [fsys EXCEPT ![d].exists = TRUE]
        prior == made[d].ClipABit
        kept == {f \in prior.files : f.name \notin {g.name : g \in src.files}}
        copied == [made EXCEPT ![d].ClipABit = Tree(chmod(src.files) \cup kept)]
    IN  IF ~src.present \/ fail # "none"
        THEN [value |-> FALSE, fs |-> fsys, ops |-> <<>>, dirs |-> <<>>]
        ELSE [value |-> TRUE, fs |-> copied, ops |-> <<"mkdir", "copytree", "chmod">>,
              dirs |-> <<dir>>]

\* mutant: a failed copy puts the earlier installation back
copy_plugin_files_restores(sys, fsys, src, fail, left) ==
    LET dir == get_resolve_plugin_directory(sys, fsys)
        d == dir.scope
        made == [fsys EXCEPT ![d].exists = TRUE]
        prior == made[d].ClipABit
        halfRemoved == [made EXCEPT ![d].ClipABit = Tree(prior.files \cap left.files)]
        removed == [made EXCEPT ![d].ClipABit = NoTree]
        halfCopied == [removed EXCEPT ![d].ClipABit =
                          [present |-> left.present, files |-> src.files \cap left.files]]
        copied == [removed EXCEPT ![d].ClipABit = Tree(src.files)]
        chmodded == [copied EXCEPT ![d].ClipABit = Tree(chmod(src.files))]
        ops1 == <<"mkdir">>
        ops2 == IF prior.present THEN Append(ops1, "rmtree") ELSE ops1
        ops3 == Append(ops2, "copytree")
        ops4 == Append(ops3, "chmod")
    IN  IF ~src.present
        THEN [value |-> FALSE, fs |-> fsys, ops |-> <<>>, dirs |-> <<>>]
        ELSE IF fail = "mkdir" /\ ~fsys[d].exists
        THEN [value |-> FALSE, fs |-> fsys, ops |-> raised(ops1), dirs |-> <<dir>>]
        ELSE IF fail = "rmtree" /\ prior.present
        THEN [value |-> FALSE, fs |-> halfRemoved, ops |-> raised(ops2), dirs |-> <<dir>>]
        ELSE IF fail = "copytree"
        THEN [value |-> FALSE, fs |-> made, ops |-> raised(ops3), dirs |-> <<dir>>]
        ELSE IF "clipabit.py" \notin Names(src)
        THEN [value |-> TRUE, fs |-> copied, ops |-> ops3, dirs |-> <<dir>>]
        ELSE IF fail = "chmod"
        THEN [value |-> FALSE, fs |-> copied, ops |-> raised(ops4), dirs |-> <<dir>>]
        ELSE [value |-> TRUE, fs |-> chmodded, ops |-> ops4, dirs |-> <<dir>>]

\* mutant: the target directory is created before the source is looked for
copy_plugin_files_mkdir_first(sys, fsys, src, fail, left) ==
    LET dir == get_resolve_plugin_directory(sys, fsys)
        d == dir.scope
        made == [fsys EXCEPT ![d].exists = TRUE]
        prior == made[d].ClipABit
        halfRemoved == [made EXCEPT ![d].ClipABit = Tree(prior.files \cap left.files)]
        removed == [made EXCEPT ![d].ClipABit = NoTree]
        halfCopied == [removed EXCEPT ![d].ClipABit =
                          [present |-> left.present, files |-> src.files \cap left.files]]
        copied == [removed EXCEPT ![d].ClipABit = Tree(src.files)]
        chmodded == [copied EXCEPT ![d].ClipABit = Tree(chmod(src.files))]
        ops1 == <<"mkdir">>
        ops2 == IF prior.present THEN Append(ops1, "rmtree") ELSE ops1
        ops3 == Append(ops2, "copytree")
        ops4 == Append(ops3, "chmod")
    IN  IF ~src.present
        THEN [value |-> FALSE, fs |-> made, ops |-> ops1, dirs |-> <<dir>>]
        ELSE IF fail = "mkdir" /\ ~fsys[d].exists
        THEN [value |-> FALSE, fs |-> fsys, ops |-> raised(ops1), dirs |-> <<dir>>]
        ELSE IF fail = "rmtree" /\ prior.present
        THEN [value |-> FALSE, fs |-> halfRemoved, ops |-> raised(ops2), dirs |-> <<dir>>]
        ELSE IF fail = "copytree"
        THEN [value |-> FALSE, fs |-> halfCopied, ops |-> raised(ops3), dirs |-> <<dir>>]
        ELSE IF "clipabit.py" \notin Names(src)
        THEN [value |-> TRUE, fs |-> copied, ops |-> ops3, dirs |-> <<dir>>]
        ELSE IF fail = "chmod"
        THEN [value |-> FALSE, fs |-> copied, ops |-> raised(ops4), dirs |-> <<dir>>]
        ELSE [value |-> TRUE, fs |-> chmodded, ops |-> ops4, dirs |-> <<dir>>]

\* copy_plugin_files (lines 270-321).  fail: the filesystem call that raises,
\* if it is made; left: what a failing rmtree or copytree leaves at the target.
copy_plugin_files(sys, fsys, src, fail, left) ==
    LET dir == get_resolve_plugin_directory(sys, fsys)
        d == dir.scope
        made == [fsys EXCEPT ![d].exists = TRUE]
        prior == made[d].ClipABit
        halfRemoved == [made EXCEPT ![d].ClipABit = Tree(prior.files \cap left.files)]
        removed == [made EXCEPT ![d].ClipABit = NoTree]
        halfCopied == [removed EXCEPT ![d].ClipABit =
                          [present |-> left.present, files |-> src.files \cap left.files]]
        copied == [removed EXCEPT ![d].ClipABit = Tree(src.files)]
        chmodded == [copied EXCEPT ![d].ClipABit = Tree(chmod(src.files))]
        ops1 == <<"mkdir">>
        ops2 == IF prior.present THEN Append(ops1, "rmtree") ELSE ops1
        ops3 == Append(ops2, "copytree")
        ops4 == Append(ops3, "chmod")
    IN  IF ~src.present
        THEN [value |-> FALSE, fs |-> fsys, ops |-> <<>>, dirs |-> <<>>]
        ELSE IF fail = "mkdir" /\ ~fsys[d].exists
        THEN [value |-> FALSE, fs |-> fsys, ops |-> raised(ops1), dirs |-> <<dir>>]
        ELSE IF fail = "rmtree" /\ prior.present
        THEN [value |-> FALSE, fs |-> halfRemoved, ops |-> raised(ops2), dirs |-> <<dir>>]
        ELSE IF fail = "copytree"
        THEN [value |-> FALSE, fs |-> halfCopied, ops |-> raised(ops3), dirs |-> <<dir>>]
        ELSE IF "clipabit.py" \notin Names(src)
        THEN [value |-> TRUE, fs |-> copied, ops |-> ops3, dirs |-> <<dir>>]
        ELSE IF fail = "chmod"
        THEN [value |-> FALSE, fs |-> copied, ops |-> raised(ops4), dirs |-> <<dir>>]
        ELSE [value |-> TRUE, fs |-> chmodded, ops |-> ops4, dirs |-> <<dir>>]

\* verify_installation (lines 324-349).  imp: the modules python3 can import.
verify_installation(sys, fsys, imp) ==
    LET dir == get_resolve_plugin_directory(sys, fsys)
        here == fsys[dir.scope]
        rc == IF ImportStatement \subseteq imp THEN "ok" ELSE "fail"
    IN  IF ~(here.exists /\ here.ClipABit.present /\ "clipabit.py" \in Names(here.ClipABit))
        THEN [value |-> FALSE, procs |-> <<>>, dirs |-> <<dir>>]
        ELSE [value |-> (rc = "ok"), dirs |-> <<dir>>,
              procs |-> <<Proc("python3 -c import", "PyQt6, requests, watchdog", rc)>>]

Failures == {"none", "mkdir", "rmtree", "copytree", "chmod"}

\* what the failing call may leave at the target: rmtree any part of the
\* earlier installation, copytree nothing or any part of the copy
LeftTrees(fail) ==
    IF fail = "rmtree" THEN {Tree(S) : S \in SUBSET PriorFiles}
    ELSE IF fail = "copytree" THEN {NoTree} \cup {Tree(S) : S \in SUBSET SourceFiles}
    ELSE {NoTree}

-----------------------------------------------------------------------------
(* main (lines 367-407), one action per gate *)

Init ==
    /\ system \in Systems
    /\ tomllib \in BOOLEAN
    /\ source \in SourceTrees
    /\ fs \in [Scopes -> DirStates]
    /\ fs0 = fs
    /\ pc = "check_platform"
    /\ started = <<>>
    /\ returned = <<>>
    /\ procs = <<>>
    /\ fsOps = <<>>
    /\ python_version = NoVersion
    /\ data = Unread
    /\ dependencies = <<>>
    /\ plugin_dir = <<>>
    /\ importable = {}
    /\ printed = <<>>
    /\ exitCode = -1
    /\ resolved = <<>>

\* mutant: the result of the gate is ignored
main_gate_ignored(ok, next, msg) ==
    pc' = next /\ printed' = printed /\ exitCode' = exitCode

\* mutant: the blocks of lines 390-393 and 395-398 stand in the other order
main_gate_copy_before_install(ok, next, msg) ==
    LET to == IF next = "install_dependencies" THEN "copy_plugin_files"
              ELSE IF next = "verify_installation" THEN "install_dependencies"
              ELSE IF next = "copy_plugin_files" THEN "verify_installation"
              ELSE next
    IN  IF ok
        THEN pc' = to /\ printed' = printed /\ exitCode' = exitCode
        ELSE /\ pc' = "exit"
             /\ printed' = IF msg = "" THEN printed ELSE Append(printed, msg)
             /\ exitCode' = 1

\* `if not <gate>(): print_error(msg); sys.exit(1)` (lines 372-398)
main_gate(ok, next, msg) ==
    IF ok
    THEN pc' = next /\ printed' = printed /\ exitCode' = exitCode
    ELSE /\ pc' = "exit"
         /\ printed' = IF msg = "" THEN printed ELSE Append(printed, msg)
         /\ exitCode' = 1

\* mutant: a failed verification is fatal like the other gates
main_end_fatal(ok) ==
    IF ~ok
    THEN /\ pc' = "exit"
         /\ printed' = Append(printed, "Installation Utilityleted with warnings.")
         /\ exitCode' = 1
    ELSE /\ pc' = "exit"
         /\ printed' = Append(printed, "Installation Utilitylete!")
         /\ exitCode' = 0

\* mutant: no sys.exit(0) after the warning, so main falls through
main_end_falls_through(ok) ==
    /\ pc' = "exit"
    /\ printed' = IF ~ok
                  THEN <<"Installation Utilityleted with warnings.", "Installation Utilitylete!">>
                  ELSE Append(printed, "Installation Utilitylete!")
    /\ exitCode' = 0

\* the end of main (lines 400-407)
main_end(ok) ==
    IF ~ok
    THEN /\ pc' = "exit"
         /\ printed' = Append(printed, "Installation Utilityleted with warnings.")
         /\ exitCode' = 0
    ELSE /\ pc' = "exit"
         /\ printed' = Append(printed, "Installation Utilitylete!")
         /\ exitCode' = 0

call(stage, value) ==
    /\ started' = Append(started, stage)
    /\ returned' = Append(returned, [stage |-> stage, value |-> value])

main_check_platform ==
    /\ pc = "check_platform"
    /\ LET ok == check_platform(system)
       IN  /\ call("check_platform", ok)
           /\ main_gate(ok, "check_davinci_resolve", "")
    /\ UNCHANGED <<system, tomllib, source, fs, fs0, procs, fsOps, python_version,
                   data, dependencies, plugin_dir, importable, resolved>>

main_check_davinci_resolve ==
    /\ pc = "check_davinci_resolve"
    /\ \E existing \in SUBSET Range(resolve_paths(system)) :
          LET ok == check_davinci_resolve(system, existing)
          IN  /\ call("check_davinci_resolve", ok)
              /\ main_gate(ok, "check_python_installation",
                           "Installation aborted: DaVinci Resolve not found.")
    /\ UNCHANGED <<system, tomllib, source, fs, fs0, procs, fsOps, python_version,
                   data, dependencies, plugin_dir, importable, resolved>>

main_check_python_installation ==
    /\ pc = "check_python_installation"
    /\ \E ver \in Outcomes, which \in Outcomes, v \in PyVersions :
          LET r == check_python_installation(ver, which, v)
          IN  /\ call("check_python_installation", r.value)
              /\ procs' = procs \o r.procs
              /\ python_version' = r.version
              /\ main_gate(r.value, "check_pip_installation",
                           "Installation aborted: Python not found.")
    /\ UNCHANGED <<system, tomllib, source, fs, fs0, fsOps,
                   data, dependencies, plugin_dir, importable, resolved>>

main_check_pip_installation ==
    /\ pc = "check_pip_installation"
    /\ \E pip \in {"ok", "fail"}, ensurepip \in {"ok", "fail"} :
          LET r == check_pip_installation(pip, ensurepip)
          IN  /\ call("check_pip_installation", r.value)
              /\ procs' = procs \o r.procs
              /\ main_gate(r.value, "install_dependencies",
                           "Installation aborted: pip not available.")
    /\ UNCHANGED <<system, tomllib, source, fs, fs0, fsOps, python_version,
                   data, dependencies, plugin_dir, importable, resolved>>

\* what line 201-203 reads, when the function gets that far
read(src, toml, doc) ==
    IF src.present /\ "pyproject.toml" \in Names(src) /\ toml THEN doc ELSE Unread

main_install_dependencies ==
    /\ pc = "install_dependencies"
    /\ \E doc \in Manifests :
          LET deps == get_dependencies_from_pyproject(source, tomllib, doc)
          IN  \E rcs \in [DOMAIN deps -> {"ok", "fail"}] :
                 LET r == install_dependencies(deps, rcs)
                 IN  /\ data' = read(source, tomllib, doc)
                     /\ dependencies' = deps
                     /\ call("install_dependencies", r.value)
                     /\ procs' = procs \o r.procs
                     /\ main_gate(r.value, "copy_plugin_files",
                                  "Installation aborted: Failed to install dependencies.")
    /\ UNCHANGED <<system, tomllib, source, fs, fs0, fsOps, python_version,
                   plugin_dir, importable, resolved>>

main_copy_plugin_files ==
    /\ pc = "copy_plugin_files"
    /\ \E fail \in Failures :
          \E left \in LeftTrees(fail) :
             LET r == copy_plugin_files(system, fs, source, fail, left)
             IN  /\ call("copy_plugin_files", r.value)
                 /\ fs' = r.fs
                 /\ fsOps' = fsOps \o r.ops
                 /\ plugin_dir' = plugin_dir \o r.dirs
                 /\ main_gate(r.value, "verify_installation",
                              "Installation aborted: Failed to copy plugin files.")
    /\ UNCHANGED <<system, tomllib, source, fs0, procs, python_version,
                   data, dependencies, importable, resolved>>

main_verify_installation ==
    /\ pc = "verify_installation"
    /\ \E imp \in ImportableSets :
          LET r == verify_installation(system, fs, imp)
          IN  /\ call("verify_installation", r.value)
              /\ procs' = procs \o r.procs
              /\ plugin_dir' = plugin_dir \o r.dirs
              /\ importable' = IF r.procs = <<>> THEN {} ELSE imp
              /\ main_end(r.value)
    /\ UNCHANGED <<system, tomllib, source, fs, fs0, fsOps, python_version,
                   data, dependencies, resolved>>

Next ==
    \/ main_check_platform
    \/ main_check_davinci_resolve
    \/ main_check_python_installation
    \/ main_check_pip_installation
    \/ main_install_dependencies
    \/ main_copy_plugin_files
    \/ main_verify_installation

Spec == Init /\ [][Next]_vars

\* every subprocess.run and every filesystem call returns, so main always
\* takes its next step
LiveSpec == Init /\ [][Next]_vars /\ WF_vars(Next)

-----------------------------------------------------------------------------
(* get_resolve_plugin_directory on its own: any platform, any filesystem *)

ResolveInit ==
    /\ system \in Systems
    /\ tomllib \in BOOLEAN
    /\ source = NoTree
    /\ fs \in [Scopes -> DirStates]
    /\ fs0 = fs
    /\ pc = "resolve"
    /\ started = <<>>
    /\ returned = <<>>
    /\ procs = <<>>
    /\ fsOps = <<>>
    /\ python_version = NoVersion
    /\ data = Unread
    /\ dependencies = <<>>
    /\ plugin_dir = <<>>
    /\ importable = {}
    /\ printed = <<>>
    /\ exitCode = -1
    /\ resolved = <<>>

call_get_resolve_plugin_directory ==
    /\ pc = "resolve"
    /\ Len(resolved) < MaxCalls
    /\ resolved' = Append(resolved, get_resolve_plugin_directory(system, fs))
    /\ UNCHANGED <<system, tomllib, source, fs, fs0, pc, started, returned, procs,
                   fsOps, python_version, data, dependencies, plugin_dir,
                   importable, printed, exitCode>>

ResolveNext == call_get_resolve_plugin_directory

ResolveSpec == ResolveInit /\ [][ResolveNext]_vars

-----------------------------------------------------------------------------
(* Properties *)

StageOrder ==
    <<"check_platform", "check_davinci_resolve", "check_python_installation",
      "check_pip_installation", "install_dependencies", "copy_plugin_files",
      "verify_installation">>

Supported == system \in {"Darwin", "Windows"}

\* has the stage at position n of StageOrder returned, and what
Returned(n) == Len(returned) >= n

Installs == SelectSeq(procs, LAMBDA p : p.cmd = "python3 -m pip install --upgrade")

Contents(files) == {<<f.name, f.content>> : f \in files}

ImportRan(ps) ==
    ps # <<>> /\ ps[Len(ps)].cmd = "python3 -c import"

\* C1: the stages start in the fixed order check_platform,
\* check_davinci_resolve, check_python_installation, check_pip_installation,
\* install_dependencies, copy_plugin_files, verify_installation, each at most
\* once, and a stage has started only if every stage before it returned true.
C1_StagesInOrderBehindGates ==
    /\ Len(started) <= Len(StageOrder)
    /\ Len(returned) = Len(started)
    /\ \A k \in DOMAIN started :
          /\ started[k] = StageOrder[k]
          /\ returned[k].stage = StageOrder[k]
          /\ k < Len(started) => returned[k].value
    /\ \A k \in DOMAIN returned :
          (k <= 6 /\ ~returned[k].value) => (Len(started) = k /\ pc = "exit")

C1_Witness ==
    /\ pc = "exit"
    /\ Len(started) = 5
    /\ ~returned[5].value

\* C2: when the run has ended the exit code is 1 exactly if one of the six
\* gates before verify_installation returned false; it is 0 when
\* verify_installation returned true and when it returned false, whether the
\* entry file was missing or the import failed.
C2_ExitCode ==
    pc = "exit" =>
        /\ exitCode \in {0, 1}
        /\ exitCode = 1 <=>
              \E k \in DOMAIN returned :
                  returned[k].stage # "verify_installation" /\ ~returned[k].value
        /\ Returned(7) => exitCode = 0

C2_Witness ==
    /\ pc = "exit"
    /\ Returned(7)
    /\ ~returned[7].value
    /\ ~ImportRan(procs)
    /\ exitCode = 0

\* C3: on a platform other than Darwin and Windows no command is ever issued
\* and the filesystem is never touched, and the run ends with check_platform
\* the only stage called, its result false, and exit code 1.
C3_UnsupportedPlatform ==
    ~Supported =>
        /\ procs = <<>>
        /\ fsOps = <<>>
        /\ fs = fs0
        /\ pc # "check_platform" =>
              /\ pc = "exit"
              /\ exitCode = 1
              /\ returned = <<[stage |-> "check_platform", value |-> FALSE]>>

C3_Witness ==
    /\ system = "Linux"
    /\ pc = "exit"
    /\ exitCode = 1
    /\ \E s \in Scopes : fs[s].ClipABit.present

\* C4: on Darwin and on Windows get_resolve_plugin_directory returns the
\* system-scope directory exactly when the user-scope directory is absent and
\* the system-scope one exists, the user-scope directory otherwise; a call
\* leaves the filesystem as it was and a second call returns the same path.
C4_Resolve ==
    Supported =>
        /\ fs = fs0
        /\ \A k \in DOMAIN resolved :
              /\ resolved[k].system = system
              /\ resolved[k].scope =
                    IF ~fs0["user"].exists /\ fs0["system"].exists
                    THEN "system" ELSE "user"
              /\ resolved[k] = resolved[1]

C4_Witness ==
    /\ system = "Windows"
    /\ ~fs0["user"].exists
    /\ ~fs0["system"].exists
    /\ Len(resolved) = 2
    /\ resolved[2].scope = "user"

\* C5: when verify_installation has resolved the plugin directory it is the
\* directory copy_plugin_files resolved, created and copied into, whatever
\* existed at the start; the other directory is as it was at the start.
C5_OneDirectoryPerRun ==
    Len(plugin_dir) = 2 =>
        /\ plugin_dir[2] = plugin_dir[1]
        /\ fs[plugin_dir[1].scope].exists
        /\ fs[plugin_dir[1].scope].ClipABit.present
        /\ \A s \in Scopes : s # plugin_dir[1].scope => fs[s] = fs0[s]

C5_Witness ==
    /\ Len(plugin_dir) = 2
    /\ ~fs0["user"].exists
    /\ ~fs0["system"].exists
    /\ fs["user"].exists

\* C6: once install_dependencies has resolved them, the dependencies are the
\* three fallback requirements if pyproject.toml is missing, no TOML parser
\* was imported or reading raised; otherwise they are project.dependencies as
\* declared if that is non-empty, and the empty sequence if it is empty or
\* not declared.  The result is always a sequence of requirements.
C6_ResolveDependencies ==
    Returned(5) =>
        /\ dependencies \in Seq(Requirements)
        /\ dependencies =
              IF ~source.present \/ "pyproject.toml" \notin Names(source)
              THEN <<"pyqt6>=6.10.0", "requests>=2.31.0", "watchdog>=3.0.0">>
              ELSE IF ~tomllib
              THEN <<"pyqt6>=6.10.0", "requests>=2.31.0", "watchdog>=3.0.0">>
              ELSE IF data = ParseError
              THEN <<"pyqt6>=6.10.0", "requests>=2.31.0", "watchdog>=3.0.0">>
              ELSE IF data.declared THEN data.dependencies
              ELSE <<>>

C6_Witness ==
    /\ Returned(5)
    /\ data = Manifest(<<>>)
    /\ dependencies = <<>>

\* C7: when the dependencies resolved by install_dependencies are empty, the
\* call issues no command, returns true, and main goes on to
\* copy_plugin_files.
C7_NothingToInstall ==
    [][(pc = "install_dependencies" /\ pc' # pc /\ dependencies' = <<>>) =>
            /\ procs' = procs
            /\ returned'[5].value
            /\ pc' = "copy_plugin_files"
            /\ exitCode' = exitCode]_vars

C7_Witness ==
    /\ pc = "copy_plugin_files"
    /\ dependencies = <<>>
    /\ data = Undeclared

\* C8: the pip install commands issued are those of a prefix of the
\* dependencies, one per position and in order; only the last one issued can
\* have failed, and then install_dependencies returned false and no command
\* at all was issued after it; it returned true exactly if the command of
\* every position was issued and succeeded.
C8_InstallStopsAtFirstFailure ==
    Returned(5) =>
        LET n == Len(Installs)
        IN  /\ n <= Len(dependencies)
            /\ \A k \in 1..n : Installs[k].arg = dependencies[k]
            /\ \A k \in 1..n : k < n => Installs[k].rc = "ok"
            /\ returned[5].value <=>
                  (n = Len(dependencies) /\ \A k \in 1..n : Installs[k].rc = "ok")
            /\ ~returned[5].value =>
                  /\ n >= 1
                  /\ Installs[n].rc = "fail"
                  /\ procs[Len(procs)] = Installs[n]
                  /\ pc = "exit"

C8_Witness ==
    /\ Returned(5)
    /\ ~returned[5].value
    /\ Len(dependencies) = 3
    /\ Len(Installs) = 2
    /\ Installs[1].rc = "ok"

\* C9: once copy_plugin_files has returned true, the ClipABit directory under
\* the resolved plugin directory holds exactly the files of the source tree,
\* with the source's contents; nothing of an earlier installation is left.
C9_ReplaceNeverMerge ==
    (Returned(6) /\ returned[6].value) =>
        LET target == fs[plugin_dir[1].scope].ClipABit
        IN  /\ target.present
            /\ Contents(target.files) = Contents(source.files)

C9_Witness ==
    /\ Returned(6)
    /\ returned[6].value
    /\ fs0[plugin_dir[1].scope].ClipABit = Tree(PriorFiles)
    /\ "clipabit.py" \notin Names(source)

\* C10: verify_installation never changes the filesystem; when it returns
\* false because the import failed, the run ends with exit code 0 and the
\* warning as its only closing message, and the files copy_plugin_files
\* copied are still in place.
C10_VerifyWarnsAndKeepsFiles ==
    [][pc = "verify_installation" =>
            /\ fs' = fs
            /\ fsOps' = fsOps
            /\ (pc' = "exit" /\ ~returned'[7].value /\ ImportRan(procs')) =>
                  /\ exitCode' = 0
                  /\ printed' = <<"Installation Utilityleted with warnings.">>
                  /\ Contents(fs'[plugin_dir'[1].scope].ClipABit.files)
                        = Contents(source.files)]_vars

C10_Witness ==
    /\ pc = "exit"
    /\ Returned(7)
    /\ ~returned[7].value
    /\ ImportRan(procs)
    /\ procs[Len(procs)].rc = "fail"
    /\ fs0[plugin_dir[1].scope].ClipABit.present

\* the three ways a run ends (main, lines 372-407)
Aborted == pc = "exit" /\ exitCode = 1

SuccessWithWarnings ==
    pc = "exit" /\ exitCode = 0 /\ printed = <<"Installation Utilityleted with warnings.">>

Success ==
    pc = "exit" /\ exitCode = 0 /\ printed = <<"Installation Utilitylete!">>

\* the module a requirement installs
ModuleOf(req) ==
    CASE req = "pyqt6>=6.10.0" -> "PyQt6"
      [] req = "requests>=2.31.0" -> "requests"
      [] req = "watchdog>=3.0.0" -> "watchdog"
      [] req = "numpy>=1.26" -> "numpy"

EntryDeployed ==
    /\ plugin_dir # <<>>
    /\ fs[plugin_dir[1].scope].ClipABit.present
    /\ "clipabit.py" \in Names(fs[plugin_dir[1].scope].ClipABit)

\* C11: when a run ends in Success the entry file is in the target and the
\* module of every dependency resolved in that run was named by the import
\* check and could be imported, whatever the manifest declared.
C11_SuccessMeansAllDependenciesImportable ==
    Success =>
        /\ EntryDeployed
        /\ \A k \in DOMAIN dependencies :
              /\ ModuleOf(dependencies[k]) \in ImportStatement
              /\ ModuleOf(dependencies[k]) \in importable

\* C12: a run on a supported platform in which every gate passed, the
\* manifest declared two dependencies that both installed, the entry file
\* was deployed and both declared dependencies can be imported ends in
\* Success.
C12_TwoDependenciesScenarioSucceeds ==
    ( /\ pc = "exit"
      /\ Supported
      /\ Returned(7)
      /\ data.parsed
      /\ Len(dependencies) = 2
      /\ Len(Installs) = 2
      /\ returned[5].value
      /\ returned[6].value
      /\ EntryDeployed
      /\ \A k \in DOMAIN dependencies : ModuleOf(dependencies[k]) \in importable )
    => Success

Count(cmd) == Len(SelectSeq(procs, LAMBDA p : p.cmd = cmd))

Rc(cmd) == SelectSeq(procs, LAMBDA p : p.cmd = cmd)[1].rc

\* C13: check_pip_installation runs the pip version check once; if it
\* succeeds ensurepip is not run and the result is true; if it fails
\* ensurepip is run exactly once, the version check is not repeated, and the
\* result is true exactly if ensurepip succeeded; a false result ends the
\* run with exit code 1.  ensurepip never runs more than once in a run.
C13_OneShotBootstrap ==
    /\ Count("python3 -m ensurepip --default-pip") <= 1
    /\ Returned(4) =>
          /\ Count("python3 -m pip --version") = 1
          /\ Rc("python3 -m pip --version") = "ok" =>
                /\ Count("python3 -m ensurepip --default-pip") = 0
                /\ returned[4].value
          /\ Rc("python3 -m pip --version") # "ok" =>
                /\ Count("python3 -m ensurepip --default-pip") = 1
                /\ returned[4].value <=> Rc("python3 -m ensurepip --default-pip") = "ok"
          /\ ~returned[4].value => Aborted /\ Len(started) = 4

C13_Witness ==
    /\ Returned(4)
    /\ returned[4].value
    /\ Rc("python3 -m pip --version") = "fail"
    /\ Count("python3 -m ensurepip --default-pip") = 1

\* C14: once os.chmod has been called on the entry file (so the directory
\* was created, an earlier installation removed and the tree copied),
\* copy_plugin_files returns true and verify_installation is started,
\* whether or not the chmod raised.
C14_ChmodFailureIgnored ==
    (Returned(6) /\ "chmod" \in Range(fsOps)) =>
        /\ returned[6].value
        /\ pc = "verify_installation" \/ Returned(7)

\* C15: check_python_installation returns true exactly if `python3
\* --version` and `which python3` both succeeded and the version of python3
\* is at least (3, 8) in the order of tuples; a command that fails or cannot
\* be started gives false, and false ends the run with exit code 1 on both
\* platforms.
C15_RuntimeFloor ==
    Returned(3) =>
        /\ returned[3].value <=>
              /\ Rc("python3 --version") = "ok"
              /\ Count("which python3") = 1
              /\ Rc("which python3") = "ok"
              /\ \/ python_version[1] > 3
                 \/ python_version[1] = 3 /\ python_version[2] >= 8
        /\ ~returned[3].value => Aborted /\ Len(started) = 3

C15_Witness ==
    /\ Returned(3)
    /\ returned[3].value
    /\ python_version = <<3, 10>>
    /\ system = "Windows"

\* the filesystem call op of copy_plugin_files raised
Raised(op) ==
    /\ Len(fsOps) >= 2
    /\ fsOps[Len(fsOps)] = "raised"
    /\ fsOps[Len(fsOps) - 1] = op

Target == fs[plugin_dir[1].scope].ClipABit

\* C16: when mkdir, rmtree or copytree raises in copy_plugin_files, the
\* function returns false, the run is aborted with exit code 1 and
\* verify_installation is never started; nothing is undone: after a failed
\* mkdir the filesystem is as before, and after a failed copytree nothing of
\* the earlier installation is back at the target.
C16_FilesystemFailureAborts ==
    \A op \in {"mkdir", "rmtree", "copytree"} :
        Raised(op) =>
            /\ Returned(6)
            /\ ~returned[6].value
            /\ Aborted
            /\ Len(started) = 6
            /\ op = "mkdir" => fs = fs0
            /\ op = "copytree" => \A f \in Target.files : f.content = "new"

C16_Witness ==
    /\ Raised("copytree")
    /\ "rmtree" \in Range(fsOps)
    /\ fs0[plugin_dir[1].scope].ClipABit = Tree(PriorFiles)
    /\ Target # fs0[plugin_dir[1].scope].ClipABit

\* C17: when the source directory is absent, copy_plugin_files returns false
\* without a filesystem call: no directory is created, an earlier
\* installation stays as it was, and the run is aborted with exit code 1.
C17_MissingSourceTouchesNothing ==
    (Returned(6) /\ ~source.present) =>
        /\ ~returned[6].value
        /\ fsOps = <<>>
        /\ fs = fs0
        /\ Aborted
        /\ Len(started) = 6

C17_Witness ==
    /\ Returned(6)
    /\ ~source.present
    /\ ~fs["user"].exists
    /\ fs["system"].ClipABit = Tree(PriorFiles)

\* C18: when the run is aborted by check_platform, check_davinci_resolve,
\* check_python_installation, check_pip_installation or
\* install_dependencies, no filesystem call was made and both plugin
\* directories, with any earlier installation, are as at the start.
C18_EarlyAbortLeavesTarget ==
    ( /\ Aborted
      /\ returned # <<>>
      /\ returned[Len(returned)].stage \in
            {"check_platform", "check_davinci_resolve", "check_python_installation",
             "check_pip_installation", "install_dependencies"} )
    => (fs = fs0 /\ fsOps = <<>>)

C18_Witness ==
    /\ Aborted
    /\ returned[Len(returned)].stage = "install_dependencies"
    /\ Installs # <<>>
    /\ \E s \in Scopes : fs[s].ClipABit = Tree(PriorFiles)

NoRepeat(seq) == \A a, b \in DOMAIN seq : seq[a] = seq[b] => a = b

\* C19: every run ends, and it ends in exactly one of Success,
\* SuccessWithWarnings and Aborted; no stage is called twice and pip install
\* is issued at most once for each position of the dependencies.
C19_TerminatesOnceNoRetry ==
    /\ <>(pc = "exit")
    /\ [](pc = "exit" =>
            /\ Success \/ SuccessWithWarnings \/ Aborted
            /\ ~(Success /\ SuccessWithWarnings)
            /\ ~(Success /\ Aborted)
            /\ ~(SuccessWithWarnings /\ Aborted))
    /\ [](pc # "exit" => ~(Success \/ SuccessWithWarnings \/ Aborted))
    /\ [](NoRepeat(started))
    /\ [](/\ Len(Installs) <= Len(dependencies)
          /\ \A k \in DOMAIN Installs : Installs[k].arg = dependencies[k])
    /\ [][pc = "exit" => pc' = "exit"]_vars

C19_Witness ==
    /\ Success
    /\ Len(started) = 7
    /\ Len(Installs) = 3

====
